---- MODULE Spec2Model ----
(***************************************************************************)
(* A model of tar.py: the USTAR header codec, the checksum, the 512-byte   *)
(* block padding of add, the sequential scan of list_content and extract, *)
(* and two add calls running at once on one archive.  Files are sequences  *)
(* of byte values 0..255; a header is a sequence of 512 bytes laid out as  *)
(* the ctypes structure TarHeader.                                         *)
(***************************************************************************)
EXTENDS Integers, Sequences, FiniteSets, TLC

VARIABLES
    archive,   \* the bytes of the archive file
    base,      \* bytes the archive held before this program wrote to it
    entries,   \* one record per completed add: path, first and last offset
    ret,       \* what the last create/add call returned or raised
    lpc,       \* list_content: "idle", "scan", "Done" or "ValueError"
    lpos,      \* list_content: position of f
    ltrace,    \* list_content: the headers it decoded, in order
    out,       \* list_content: the lines printed
    xpc,       \* extract: "idle", "scan", "Done", "ValueError" or "IOError"
    xpos,      \* extract: position of in_file
    xtrace,    \* extract: the headers it decoded, in order
    outfs,     \* extract: the destination directory, out path -> object
    umask,     \* extract: the umask of the extracting process
    pb,        \* one call of permission_bits: arguments and result
    gen,       \* one run of the generator read_file_in_chunks
    wr         \* two add calls running at once on the archive

vars == <<archive, base, entries, ret, lpc, lpos, ltrace, out,
          xpc, xpos, xtrace, outfs, umask, pb, gen, wr>>

----------------------------------------------------------------------------
(* Bytes and text *)

Min(a, b) == IF a < b THEN a ELSE b

Zeros(n) == [i \in 1..n |-> 0]

Rep(b, n) == [i \in 1..n |-> b]

\* s[:n]
Take(s, n) == SubSeq(s, 1, Min(n, Len(s)))

\* A c_char array read back through ctypes: the bytes before the first NUL.
CStrLen(s) ==
    IF \A i \in 1..Len(s) : s[i] # 0 THEN Len(s)
    ELSE (CHOOSE i \in 1..Len(s) : s[i] = 0 /\ \A j \in 1..(i - 1) : s[j] # 0) - 1

CStr(s) == SubSeq(s, 1, CStrLen(s))

\* The octal digits of v, most significant first ('{:o}'.format(v)).
RECURSIVE OctDigits(_)
OctDigits(v) ==
    IF v < 8 THEN <<48 + v>> ELSE Append(OctDigits(v \div 8), 48 + (v % 8))

\* '{:0Wo}'.format(v): zero-padded on the left to at least W characters.
FormatOctal(v, W) ==
    LET d == OctDigits(v)
    IN  IF Len(d) >= W THEN d ELSE Rep(48, W - Len(d)) \o d

\* bytes.strip() / the whitespace int() ignores: leading and trailing spaces.
Strip(s) ==
    LET kept == {i \in 1..Len(s) : s[i] # 32}
    IN  IF kept = {} THEN <<>>
        ELSE SubSeq(s, CHOOSE i \in kept : \A j \in kept : i <= j,
                       CHOOSE i \in kept : \A j \in kept : i >= j)

\* int(text, 8) raises ValueError unless, whitespace aside, text is a
\* non-empty run of the digits 0..7 (signs, prefixes and underscores are
\* bytes this model never writes).
IsOctal(text) ==
    LET t == Strip(text)
    IN  t # <<>> /\ \A i \in 1..Len(t) : t[i] \in 48..55

\* The value of the first n octal digits of t.
RECURSIVE OctValue(_, _)
OctValue(t, n) ==
    IF n = 0 THEN 0 ELSE 8 * OctValue(t, n - 1) + (t[n] - 48)

ParseOctal(text) == OctValue(Strip(text), Len(Strip(text)))

----------------------------------------------------------------------------
(* TarHeader: offset (0-based) and width of every field *)

BLOCK == 512

TarHeader == [
    name     |-> [off |->   0, len |-> 100],
    mode     |-> [off |-> 100, len |->   8],
    uid      |-> [off |-> 108, len |->   8],
    gid      |-> [off |-> 116, len |->   8],
    size     |-> [off |-> 124, len |->  12],
    mtime    |-> [off |-> 136, len |->  12],
    chksum   |-> [off |-> 148, len |->   8],
    typeflag |-> [off |-> 156, len |->   1],
    linkname |-> [off |-> 157, len |-> 100],
    magic    |-> [off |-> 257, len |->   6],
    version  |-> [off |-> 263, len |->   2],
    uname    |-> [off |-> 265, len |->  32],
    gname    |-> [off |-> 297, len |->  32],
    devmajor |-> [off |-> 329, len |->   8],
    devminor |-> [off |-> 337, len |->   8],
    prefix   |-> [off |-> 345, len |-> 155],
    pad      |-> [off |-> 500, len |->  12] ]

\* The raw bytes of field f of header h.
FieldBytes(h, f) ==
    SubSeq(h, TarHeader[f].off + 1, TarHeader[f].off + TarHeader[f].len)

\* tar_header.f read through ctypes: a c_char array stops at its first NUL,
\* the single c_char typeflag is returned as it is.
GetField(h, f) ==
    IF f = "typeflag" THEN FieldBytes(h, f) ELSE CStr(FieldBytes(h, f))

\* h with the bytes at 0-based offset off replaced by val.
PutBytes(h, off, val) ==
    SubSeq(h, 1, off) \o val \o SubSeq(h, off + Len(val) + 1, Len(h))

\* tar_header.f = val through ctypes, as it changes the bytes cur of the
\* field: a c_char array takes val up to its first NUL and, when that is
\* shorter than the field, one NUL after it, and keeps the rest of cur; the
\* single c_char typeflag takes the one byte.  (A val longer than the field
\* raises ValueError, which no input of this model causes.)
SetField(cur, f, val) ==
    IF f = "typeflag" THEN val
    ELSE IF CStrLen(val) < Len(cur)
    THEN CStr(val) \o <<0>> \o SubSeq(cur, CStrLen(val) + 2, Len(cur))
    ELSE CStr(val)

----------------------------------------------------------------------------
(* Type flags *)

TAR_TYPE_REGULAR_FILE == <<48>>
TAR_TYPE_REGULAR_FILE_ALIAS == <<0>>
TAR_TYPE_HARDLINK == <<49>>
TAR_TYPE_SYMLINK == <<50>>
TAR_TYPE_CHAR == <<51>>
TAR_TYPE_BLOCK == <<52>>
TAR_TYPE_DIR == <<53>>
TAR_TYPE_FIFO == <<54>>
TAR_TYPE_CONTIGUOUS == <<55>>

\* TYPE_FLAGS.get(chr(ord(typeflag)), '?')
TYPE_FLAGS(typeflag) ==
    CASE typeflag = TAR_TYPE_REGULAR_FILE       -> "-"
      [] typeflag = TAR_TYPE_REGULAR_FILE_ALIAS -> "-"
      [] typeflag = TAR_TYPE_HARDLINK           -> "h"
      [] typeflag = TAR_TYPE_SYMLINK            -> "l"
      [] typeflag = TAR_TYPE_CHAR               -> "c"
      [] typeflag = TAR_TYPE_BLOCK              -> "b"
      [] typeflag = TAR_TYPE_DIR                -> "d"
      [] typeflag = TAR_TYPE_FIFO               -> "p"
      [] OTHER                                  -> "?"

----------------------------------------------------------------------------
(* permission_bits *)

\* value >> n
Shr(value, n) == value \div (2 ^ n)

\* value & m, for a mask m of one bit
BitAnd(value, m) == ((value \div m) % 2) * m

\* 'c' if bit else '-'
Flag(bit, c) == IF bit # 0 THEN c ELSE "-"

\* The group bits taken from the user's: the shift of the user block kept.
permission_bits_group_shift(str_value, typeflag) ==
    LET value == ParseOctal(str_value)
    IN  << TYPE_FLAGS(typeflag),
           Flag(BitAnd(Shr(value, 6), 4), "r"),
           Flag(BitAnd(Shr(value, 6), 2), "w"),
           Flag(BitAnd(Shr(value, 6), 1), "x"),
           Flag(BitAnd(Shr(value, 6), 4), "r"),
           Flag(BitAnd(Shr(value, 6), 2), "w"),
           Flag(BitAnd(Shr(value, 6), 1), "x"),
           Flag(BitAnd(value, 4), "r"),
           Flag(BitAnd(value, 2), "w"),
           Flag(BitAnd(value, 1), "x") >>

permission_bits(str_value, typeflag) ==
    LET value == ParseOctal(str_value)
    IN  << TYPE_FLAGS(typeflag),
           Flag(BitAnd(Shr(value, 6), 4), "r"),
           Flag(BitAnd(Shr(value, 6), 2), "w"),
           Flag(BitAnd(Shr(value, 6), 1), "x"),
           Flag(BitAnd(Shr(value, 3), 4), "r"),
           Flag(BitAnd(Shr(value, 3), 2), "w"),
           Flag(BitAnd(Shr(value, 3), 1), "x"),
           Flag(BitAnd(value, 4), "r"),
           Flag(BitAnd(value, 2), "w"),
           Flag(BitAnd(value, 1), "x") >>

----------------------------------------------------------------------------
(* get_header_checksum *)

\* sum(data[lo .. lo + n - 1]), the range halved at each step
RECURSIVE SumRange(_, _, _)
SumRange(data, lo, n) ==
    IF n = 0 THEN 0
    ELSE IF n = 1 THEN data[lo]
    ELSE SumRange(data, lo, n \div 2) + SumRange(data, lo + n \div 2, n - n \div 2)

\* The sum that misses the first byte of the header.
get_header_checksum_from_second(header) == SumRange(header, 2, Len(header) - 1)

get_header_checksum(header) == SumRange(header, 1, Len(header))

----------------------------------------------------------------------------
(* read_file_in_chunks *)

CHUNK_SIZE == 8192

\* in_file.read(n) of a buffered file holding data, at position pos: the next
\* n bytes, fewer only at the end of the file; all the rest when n < 0.
FileRead(data, pos, n) ==
    IF n < 0 THEN SubSeq(data, pos + 1, Len(data))
    ELSE SubSeq(data, pos + 1, Min(pos + n, Len(data)))

\* Every read asks for chunk_size: the last chunk is not cut to size.
ChunkRequestWhole(read_bytes, file_size, chunk_size) == chunk_size

\* The size the generator asks of in_file.read once read_bytes are read.
ChunkRequest(read_bytes, file_size, chunk_size) ==
    IF read_bytes > file_size - chunk_size
    THEN file_size - read_bytes
    ELSE chunk_size

\* All the chunks of one fully drained generator, concatenated: what
\* "for chunk in read_file_in_chunks(...): f.write(chunk)" writes.
RECURSIVE read_file_in_chunks(_, _, _, _, _)
read_file_in_chunks(data, pos, file_size, chunk_size, read_bytes) ==
    LET chunk == FileRead(data, pos, ChunkRequest(read_bytes, file_size, chunk_size))
    IN  IF chunk = <<>> THEN <<>>
        ELSE chunk \o read_file_in_chunks(data, pos + Len(chunk), file_size,
                                          chunk_size, read_bytes + Len(chunk))

----------------------------------------------------------------------------
(* The files add and create are given: what os.stat, os.path.exists,      *)
(* os.walk and open(...).read() answer for each path.                      *)

NoPath == <<>>

P_f == <<102>>            \* "f": a regular file of 13 bytes, rwxr-xr-x
P_d == <<100>>            \* "d": a directory holding g, st_size 4096 (ext4)
P_g == <<100, 47, 103>>   \* "d/g": a regular file of one full block, rwxr-x---
P_t == <<116>>            \* "t": an empty directory, st_size 40 (tmpfs)
P_p == <<112>>            \* "p": a FIFO
P_s == <<115>>            \* "s": a socket
P_n == <<110>>            \* "n": no such file
P_b == <<98>>             \* "b": a regular file of 8192 bytes, rw-r--r--

Paths == {P_f, P_d, P_g, P_t, P_p, P_s, P_n}

Username == <<114, 111, 111, 116>>   \* getpass.getuser()
GroupName == <<114, 111, 111, 116>>  \* get_group_name(username)

\* os.path.exists(path)
Exists(path) == path \in (Paths \cup {P_b}) \ {P_n}

\* os.stat(path), with the bytes the file holds.  os.stat follows symbolic
\* links, so no path stats as a link.
Stat(path) ==
    LET st(k, m, sz, c) ==
            [kind |-> k, st_mode |-> m, st_uid |-> 1000, st_gid |-> 100,
             st_size |-> sz, st_mtime |-> 1700000000, content |-> c]
    IN  CASE path = P_f -> st("reg", 493, 13,
                 <<49, 50, 51, 13, 10, 97, 97, 97, 13, 10, 122, 122, 122>>)
          [] path = P_d -> st("dir", 493, 4096, <<>>)
          [] path = P_g -> st("reg", 488, 512, Rep(103, 512))
          [] path = P_t -> st("dir", 448, 40, <<>>)
          [] path = P_p -> st("fifo", 420, 0, <<>>)
          [] path = P_s -> st("sock", 493, 0, <<>>)
          [] path = P_b -> st("reg", 420, 8192, Rep(66, 8192))

\* os.path.isfile(path)
IsFile(path) == Exists(path) /\ Stat(path).kind = "reg"

\* os.walk(top): one (dirname, files) pair per directory under top, top
\* first; nothing when top is no directory.
os_walk(top) ==
    IF top = P_d THEN << [dirname |-> P_d, files |-> <<P_g>>] >>
    ELSE IF top = P_t THEN << [dirname |-> P_t, files |-> <<>>] >>
    ELSE <<>>

----------------------------------------------------------------------------
(* add *)

\* The if/elif chain of add over the S_IS* tests; '' when none applies.
TypeFlagOf(st) ==
    CASE st.kind = "reg"  -> TAR_TYPE_REGULAR_FILE
      [] st.kind = "lnk"  -> IF st.hard THEN TAR_TYPE_HARDLINK ELSE TAR_TYPE_SYMLINK
      [] st.kind = "chr"  -> TAR_TYPE_CHAR
      [] st.kind = "blk"  -> TAR_TYPE_BLOCK
      [] st.kind = "dir"  -> TAR_TYPE_DIR
      [] st.kind = "fifo" -> TAR_TYPE_FIFO
      [] OTHER            -> <<>>

\* The size add writes into the header.
HeaderSize(st, typeflag) == IF typeflag # TAR_TYPE_DIR THEN st.st_size ELSE 0

\* The value add assigns to each field of a fresh TarHeader, the checksum
\* field aside.
HeaderFields(filename, st, typeflag, linkname) ==
    [ name     |-> Take(filename, 99),
      mode     |-> FormatOctal(st.st_mode % 512, 7),
      uid      |-> FormatOctal(st.st_uid, 7),
      gid      |-> FormatOctal(st.st_gid, 7),
      size     |-> FormatOctal(HeaderSize(st, typeflag), 11),
      mtime    |-> FormatOctal(st.st_mtime, 1),
      typeflag |-> typeflag,
      linkname |-> Take(linkname, 99),
      magic    |-> <<117, 115, 116, 97, 114, 0>>,
      version  |-> <<48, 48>>,
      uname    |-> Take(Username, 32),
      gname    |-> GroupName,
      devmajor |-> Append(Rep(48, 7), 0),
      devminor |-> Append(Rep(48, 7), 0),
      prefix   |-> <<>>,
      pad      |-> <<>> ]

\* The 512 bytes of a TarHeader whose fields were zero, then assigned v, the
\* checksum field holding the bytes chksum.
HeaderBytes(v, chksum) ==
    LET fld(f) == SetField(Zeros(TarHeader[f].len), f, v[f])
    IN  fld("name") \o fld("mode") \o fld("uid") \o fld("gid") \o fld("size")
        \o fld("mtime") \o chksum \o fld("typeflag") \o fld("linkname")
        \o fld("magic") \o fld("version") \o fld("uname") \o fld("gname")
        \o fld("devmajor") \o fld("devminor") \o fld("prefix") \o fld("pad")

\* tar_header.chksum = ' ' * 8, on the zeroed field
BlankChecksum == SetField(Zeros(TarHeader.chksum.len), "chksum", Rep(32, 8))

\* The header as it stands when the checksum is taken: every field set, the
\* checksum field holding eight spaces.
BlankHeader(filename, st, typeflag, linkname) ==
    HeaderBytes(HeaderFields(filename, st, typeflag, linkname), BlankChecksum)

\* tar_header.chksum = '{:06o}'.format(get_header_checksum(tar_header)), on
\* the field that holds the eight spaces
StoredChecksum(blank) ==
    SetField(BlankChecksum, "chksum", FormatOctal(get_header_checksum(blank), 6))

\* The header add writes: the blank header with its checksum stored.
AddHeader(filename, st, typeflag, linkname) ==
    HeaderBytes(HeaderFields(filename, st, typeflag, linkname),
                StoredChecksum(BlankHeader(filename, st, typeflag, linkname)))

\* math.ceil(n / 512.0) * 512
RoundUp(n) == ((n + BLOCK - 1) \div BLOCK) * BLOCK

\* The bytes add writes after the header: the data, for a regular file or a
\* link that is not empty, then the padding computed from
\* os.path.getsize(filename).
AddBody(st, typeflag) ==
    LET file_size == st.st_size
        data == IF typeflag \in {TAR_TYPE_REGULAR_FILE, TAR_TYPE_HARDLINK,
                                 TAR_TYPE_SYMLINK} /\ file_size # 0
                THEN read_file_in_chunks(st.content, 0, file_size, CHUNK_SIZE, 0)
                ELSE <<>>
    IN  data \o Zeros(RoundUp(file_size) - file_size)

\* What add appends for filename: the header, then the body.  (linkname
\* stays '': no path stats as a link.)
AddRecord(filename) ==
    LET st == Stat(filename)
        typeflag == TypeFlagOf(st)
    IN  AddHeader(filename, st, typeflag, <<>>) \o AddBody(st, typeflag)

\* AddRecord of every path add can write, computed once.
Records ==
    [p \in {q \in Paths \cup {P_b} : Exists(q) /\ Len(TypeFlagOf(Stat(q))) = 1}
        |-> AddRecord(p)]

\* An add that writes a record for a path without type flag too.
add_any_type(arch, filename) ==
    IF ~Exists(filename) THEN [archive |-> arch, ret |-> "False"]
    ELSE [archive |-> arch \o AddRecord(filename), ret |-> "True"]

\* add(archive, filename) on an archive holding arch: the bytes it holds
\* afterwards and what the call returns or raises.
add(arch, filename) ==
    IF ~Exists(filename) THEN [archive |-> arch, ret |-> "False"]
    ELSE IF Len(TypeFlagOf(Stat(filename))) # 1
    THEN \* tar_header.typeflag = b'' raises before anything is written
         [archive |-> arch, ret |-> "TypeError"]
    ELSE [archive |-> arch \o Records[filename], ret |-> "True"]

----------------------------------------------------------------------------
(* create *)

\* The paths create hands to add, in order.
RECURSIVE WalkOrder(_)
WalkOrder(walk) ==
    IF walk = <<>> THEN <<>>
    ELSE <<Head(walk).dirname>> \o Head(walk).files \o WalkOrder(Tail(walk))

CreateOrder(file_or_dir) ==
    IF IsFile(file_or_dir) THEN <<file_or_dir>> ELSE WalkOrder(os_walk(file_or_dir))

\* add called on each path of todo in turn, until one raises: the archive,
\* the entries completed and the outcome.
RECURSIVE AddAll(_, _, _)
AddAll(arch, ents, todo) ==
    IF todo = <<>> THEN [archive |-> arch, entries |-> ents, ret |-> "True"]
    ELSE LET r == add(arch, Head(todo))
         IN  IF r.ret = "TypeError"
             THEN [archive |-> r.archive, entries |-> ents, ret |-> "TypeError"]
             ELSE AddAll(r.archive,
                         IF r.ret = "True"
                         THEN Append(ents, [path |-> Head(todo), off |-> Len(arch),
                                            end |-> Len(r.archive)])
                         ELSE ents,
                         Tail(todo))

----------------------------------------------------------------------------
(* Archives written by other programs, which list_content and extract may *)
(* be handed.                                                              *)

\* A header as another tar writer lays it out: the fields of TarHeader, any
\* type flag, the size of the data that follows.
ForeignHeader(name, typeflag, size, linkname) ==
    AddHeader(name,
              [st_mode |-> 420, st_uid |-> 1000, st_gid |-> 100,
               st_size |-> size, st_mtime |-> 1700000000],
              typeflag, linkname)

\* One record: the header, the data, zeros to the next block boundary.
ForeignEntry(name, typeflag, data, linkname) ==
    ForeignHeader(name, typeflag, Len(data), linkname)
        \o data \o Zeros(RoundUp(Len(data)) - Len(data))

ForeignArchives ==
    LET f == ForeignEntry(P_f, TAR_TYPE_REGULAR_FILE, Stat(P_f).content, <<>>)
    IN  { \* a symbolic link without data, a file, the two-block terminator
          ForeignEntry(<<108>>, TAR_TYPE_SYMLINK, <<>>, P_f) \o f \o Zeros(2 * BLOCK),
          \* a contiguous file with five bytes of data, then a file
          ForeignEntry(<<99>>, TAR_TYPE_CONTIGUOUS, <<49, 50, 51, 52, 53>>, <<>>) \o f,
          \* a hard link entry carrying one full block of data, then a file
          ForeignEntry(<<104>>, TAR_TYPE_HARDLINK, Rep(97, BLOCK), P_f) \o f,
          \* a header whose name field is NUL, 'a', NULs, then a file
          PutBytes(ForeignHeader(<<97>>, TAR_TYPE_REGULAR_FILE, 0, <<>>), 0, <<0, 97>>) \o f,
          \* a file under the alias type flag, cut off inside its data
          SubSeq(ForeignEntry(P_f, TAR_TYPE_REGULAR_FILE_ALIAS, Stat(P_f).content, <<>>),
                 1, BLOCK + 5),
          \* a file whose header is cut off after 300 bytes
          SubSeq(f, 1, 300) }

----------------------------------------------------------------------------
(* Bounds *)

MaxEntries == 2

MaxForeignAdds == 1

MaxModeValue == 511

MaxSource == 5

MaxFileSize == 4

MaxChunk == 3

----------------------------------------------------------------------------
(* The state machine *)

NoCall == [op |-> "none", path |-> NoPath, val |-> "None"]

IdlePb == [pc |-> "off"]

IdleGen == [pc |-> "off"]

IdleWr == [on |-> FALSE]

\* No list_content or extract has been started on the archive as it is.  (The
\* scans change nothing create and add read, so every archive is written
\* first and scanned afterwards.)
Quiet == lpc = "idle" /\ xpc = "idle"

Init ==
    /\ archive \in ForeignArchives
    /\ base = Len(archive)
    /\ entries = <<>>
    /\ ret = NoCall
    /\ lpc = "idle" /\ lpos = 0 /\ ltrace = <<>> /\ out = <<>>
    /\ xpc = "idle" /\ xpos = 0 /\ xtrace = <<>> /\ outfs = <<>>
    /\ umask = 0
    /\ pb = IdlePb
    /\ gen = IdleGen
    /\ wr = IdleWr

\* create(archive, file_or_dir)
Create(file_or_dir) ==
    /\ Quiet
    /\ IF ~Exists(file_or_dir)
       THEN /\ ret' = [op |-> "create", path |-> file_or_dir, val |-> "False"]
            /\ UNCHANGED <<archive, base, entries>>
       ELSE LET r == AddAll(<<>>, <<>>, CreateOrder(file_or_dir))
            IN  /\ archive' = r.archive
                /\ base' = 0
                /\ entries' = r.entries
                /\ ret' = [op |-> "create", path |-> file_or_dir, val |-> r.ret]
    /\ UNCHANGED <<lpc, lpos, ltrace, out, xpc, xpos, xtrace, outfs, umask, pb, gen, wr>>

\* add(archive, filename)
Add(filename) ==
    /\ Quiet
    /\ Len(entries) < (IF base = 0 THEN MaxEntries ELSE MaxForeignAdds)
    /\ LET r == AddAll(archive, entries, <<filename>>)
       IN  /\ archive' = r.archive
           /\ entries' = r.entries
           /\ ret' = [op |-> "add", path |-> filename,
                      val |-> IF Exists(filename) THEN r.ret ELSE "False"]
    /\ UNCHANGED <<base, lpc, lpos, ltrace, out, xpc, xpos, xtrace, outfs, umask,
                   pb, gen, wr>>

----------------------------------------------------------------------------
(* The scan of list_content and extract *)

\* tar_header = TarHeader(); in_file.readinto(tar_header): the next 512
\* bytes of the file over a zeroed header, fewer at the end of the file.
ReadInto(data, pos) ==
    LET got == FileRead(data, pos, BLOCK)
    IN  [header |-> got \o Zeros(BLOCK - Len(got)), pos |-> pos + Len(got)]

\* The end marker taken to be a name field of zero bytes only.
IsEndMarkerAllZero(header) == FieldBytes(header, "name") = Zeros(100)

\* "if not name: break"
IsEndMarker(header) == GetField(header, "name") = <<>>

\* int(math.ceil(file_size / 512.0) * 512) - file_size
PaddingSize(file_size) == RoundUp(file_size) - file_size

\* The position of a file of n bytes after read(k) at position pos.
Skip(n, pos, k) == Min(pos + k, n)

\* The line list_content prints for a header.
ListLine(h) ==
    [ perm  |-> permission_bits(GetField(h, "mode"), GetField(h, "typeflag")),
      uid   |-> ParseOctal(GetField(h, "uid")),
      gid   |-> ParseOctal(GetField(h, "gid")),
      size  |-> ParseOctal(GetField(h, "size")),
      mtime |-> ParseOctal(GetField(h, "mtime")),
      name  |-> GetField(h, "name"),
      link  |-> Strip(GetField(h, "linkname")) ]

\* Every int(..., 8) of one pass of list_content's loop succeeds.
ListFieldsParse(h) ==
    \A f \in {"size", "mode", "uid", "gid", "mtime"} : IsOctal(GetField(h, f))

ListOpen ==
    /\ lpc = "idle" /\ xpc = "idle"
    /\ lpc' = "scan" /\ lpos' = 0 /\ ltrace' = <<>> /\ out' = <<>>
    /\ UNCHANGED <<archive, base, entries, ret,
                   xpc, xpos, xtrace, outfs, umask, pb, gen, wr>>

\* One pass of the while loop of list_content.
ListStep ==
    /\ lpc = "scan"
    /\ LET r == ReadInto(archive, lpos)
           h == r.header
       IN  IF IsEndMarker(h)
           THEN /\ lpc' = "Done"
                /\ lpos' = r.pos
                /\ ltrace' = Append(ltrace, [off |-> lpos, end |-> TRUE, size |-> 0])
                /\ out' = out
           ELSE IF ~ListFieldsParse(h)
           THEN /\ lpc' = "ValueError"
                /\ lpos' = r.pos
                /\ ltrace' = ltrace
                /\ out' = out
           ELSE LET file_size == ParseOctal(GetField(h, "size"))
                IN  /\ lpc' = "scan"
                    /\ out' = Append(out, ListLine(h))
                    /\ ltrace' = Append(ltrace, [off |-> lpos, end |-> FALSE,
                                                 size |-> file_size])
                    /\ lpos' = Skip(Len(archive),
                                    Skip(Len(archive), r.pos, file_size),
                                    PaddingSize(file_size))
    /\ UNCHANGED <<archive, base, entries, ret,
                   xpc, xpos, xtrace, outfs, umask, pb, gen, wr>>

----------------------------------------------------------------------------
(* extract *)

Umasks == {18, 63}    \* 0o022, 0o077

\* a & ~m
RECURSIVE AndNot(_, _)
AndNot(a, m) ==
    IF a = 0 THEN 0
    ELSE (IF a % 2 = 1 /\ m % 2 = 0 THEN 1 ELSE 0) + 2 * AndNot(a \div 2, m \div 2)

\* The permission bits of a file that open(out_path, 'wb') creates (0o666
\* less the umask) and of a directory that os.makedirs creates (0o777 less
\* the umask): extract sets no mode itself.
CreateMode(kind, mask) == AndNot(IF kind = "dir" THEN 511 ELSE 438, mask)

\* The directories out_path lies in, below dest_path.
Ancestors(name) ==
    { SubSeq(name, 1, i - 1) : i \in { j \in 2..Len(name) : name[j] = 47 } }

IsDir(fs, p) == p \in DOMAIN fs /\ fs[p].kind = "dir"

\* open(out_path, 'wb') succeeds: the directory of out_path exists and
\* out_path itself is no directory.
CanOpen(fs, name) ==
    /\ \A a \in Ancestors(name) : IsDir(fs, a)
    /\ ~IsDir(fs, name)

\* with open(out_path, 'wb') as f: f.write(chunk) for every chunk
WriteFile(fs, name, content, mask) ==
    (name :> [kind |-> "reg", content |-> content,
              mode |-> IF name \in DOMAIN fs THEN fs[name].mode
                       ELSE CreateMode("reg", mask)]) @@ fs

\* try: os.makedirs(out_path) except OSError: pass
MakeDirs(fs, name, mask) ==
    IF name \in DOMAIN fs \/ \E a \in Ancestors(name) : a \in DOMAIN fs /\ ~IsDir(fs, a)
    THEN fs
    ELSE [p \in (Ancestors(name) \cup {name}) \ DOMAIN fs
            |-> [kind |-> "dir", content |-> <<>>, mode |-> CreateMode("dir", mask)]]
         @@ fs

\* The type flags whose data extract reads.
IsExtractedFile(typeflag) ==
    typeflag \in {TAR_TYPE_REGULAR_FILE, TAR_TYPE_REGULAR_FILE_ALIAS}

ExtractOpen ==
    /\ xpc = "idle" /\ lpc \in {"Done", "ValueError"}
    /\ \E mask \in Umasks : umask' = mask
    /\ xpc' = "scan" /\ xpos' = 0 /\ xtrace' = <<>> /\ outfs' = <<>>
    /\ UNCHANGED <<archive, base, entries, ret,
                   lpc, lpos, ltrace, out, pb, gen, wr>>

\* One pass of the while loop of extract.
ExtractStep ==
    /\ xpc = "scan"
    /\ LET r == ReadInto(archive, xpos)
           h == r.header
           name == GetField(h, "name")
           typeflag == GetField(h, "typeflag")
       IN  IF IsEndMarker(h)
           THEN /\ xpc' = "Done"
                /\ xpos' = r.pos
                /\ xtrace' = Append(xtrace, [off |-> xpos, end |-> TRUE, size |-> 0])
                /\ outfs' = outfs
           ELSE IF ~IsOctal(GetField(h, "size"))
           THEN /\ xpc' = "ValueError"
                /\ xpos' = r.pos
                /\ xtrace' = xtrace
                /\ outfs' = outfs
           ELSE LET file_size == ParseOctal(GetField(h, "size"))
                    entry == [off |-> xpos, end |-> FALSE, size |-> file_size]
                IN  IF IsExtractedFile(typeflag) /\ ~CanOpen(outfs, name)
                    THEN /\ xpc' = "IOError"
                         /\ xpos' = r.pos
                         /\ xtrace' = Append(xtrace, entry)
                         /\ outfs' = outfs
                    ELSE LET data == IF IsExtractedFile(typeflag)
                                     THEN read_file_in_chunks(archive, r.pos, file_size,
                                                              CHUNK_SIZE, 0)
                                     ELSE <<>>
                         IN  /\ xpc' = "scan"
                             /\ xtrace' = Append(xtrace, entry)
                             /\ outfs' = IF IsExtractedFile(typeflag)
                                         THEN WriteFile(outfs, name, data, umask)
                                         ELSE IF typeflag = TAR_TYPE_DIR
                                         THEN MakeDirs(outfs, name, umask)
                                         ELSE outfs
                             /\ xpos' = Skip(Len(archive), r.pos + Len(data),
                                             PaddingSize(file_size))
    /\ UNCHANGED <<archive, base, entries, ret,
                   lpc, lpos, ltrace, out, umask, pb, gen, wr>>

----------------------------------------------------------------------------

Next ==
    \/ \E p \in Paths : Create(p)
    \/ \E p \in Paths : Add(p)
    \/ ListOpen
    \/ ListStep
    \/ ExtractOpen
    \/ ExtractStep

Spec == Init /\ [][Next]_vars

----------------------------------------------------------------------------
(* permission_bits, called on its own *)

\* The archive machine at rest, for the specifications of single functions.
AtRest ==
    /\ archive = <<>> /\ base = 0 /\ entries = <<>> /\ ret = NoCall
    /\ lpc = "idle" /\ lpos = 0 /\ ltrace = <<>> /\ out = <<>>
    /\ xpc = "idle" /\ xpos = 0 /\ xtrace = <<>> /\ outfs = <<>>
    /\ umask = 0

TypeFlagArgs ==
    {TAR_TYPE_REGULAR_FILE, TAR_TYPE_REGULAR_FILE_ALIAS, TAR_TYPE_HARDLINK,
     TAR_TYPE_SYMLINK, TAR_TYPE_CHAR, TAR_TYPE_BLOCK, TAR_TYPE_DIR,
     TAR_TYPE_FIFO, TAR_TYPE_CONTIGUOUS, <<120>>}

\* The widths a mode is written with: '7', '007' and the '{:07o}' of add.
ModeWidths == {1, 3, 7}

InitPerm ==
    /\ AtRest
    /\ gen = IdleGen
    /\ wr = IdleWr
    /\ \E value \in 0..MaxModeValue, w \in ModeWidths, t \in TypeFlagArgs :
          pb = [pc |-> "call", value |-> value,
                str_value |-> FormatOctal(value, w), typeflag |-> t]

CallPermissionBits ==
    /\ pb.pc = "call"
    /\ pb' = [pc |-> "return", value |-> pb.value, str_value |-> pb.str_value,
              typeflag |-> pb.typeflag,
              res |-> permission_bits(pb.str_value, pb.typeflag)]
    /\ UNCHANGED <<archive, base, entries, ret, lpc, lpos, ltrace, out,
                   xpc, xpos, xtrace, outfs, umask, gen, wr>>

NextPerm == CallPermissionBits

SpecPerm == InitPerm /\ [][NextPerm]_vars

----------------------------------------------------------------------------
(* read_file_in_chunks, one generator run step by step *)

InitChunks ==
    /\ AtRest
    /\ pb = IdlePb
    /\ wr = IdleWr
    /\ \E n \in 0..MaxSource, start \in 0..1, file_size \in 0..MaxFileSize,
          chunk_size \in 1..MaxChunk :
          /\ start <= n
          /\ gen = [pc |-> "run", data |-> [i \in 1..n |-> i], start |-> start,
                    pos |-> start, file_size |-> file_size,
                    chunk_size |-> chunk_size, read_bytes |-> 0,
                    requests |-> <<>>, chunks |-> <<>>]

\* One pass of the while loop of read_file_in_chunks: a read, then the chunk
\* is yielded, or the generator returns when the chunk is empty.
GenStep ==
    /\ gen.pc = "run"
    /\ LET n == ChunkRequest(gen.read_bytes, gen.file_size, gen.chunk_size)
           chunk == FileRead(gen.data, gen.pos, n)
       IN  gen' = [gen EXCEPT
                     !.requests = Append(@, [n |-> n, read_bytes |-> gen.read_bytes]),
                     !.pos = @ + Len(chunk),
                     !.read_bytes = @ + Len(chunk),
                     !.chunks = IF chunk # <<>> THEN Append(@, chunk) ELSE @,
                     !.pc = IF chunk # <<>> THEN "run" ELSE "done"]
    /\ UNCHANGED <<archive, base, entries, ret, lpc, lpos, ltrace, out,
                   xpc, xpos, xtrace, outfs, umask, pb, wr>>

NextChunks == GenStep

SpecChunks == InitChunks /\ [][NextChunks]_vars

----------------------------------------------------------------------------
(* Two add calls at once on one archive.  Each call runs in a process of   *)
(* its own; what one process sees of the other are its system calls on    *)
(* the archive file: os.path.exists, open, and the writes by which the     *)
(* buffered file "out" hands its bytes to the operating system.            *)

Writers == {1, 2}

\* The files the two calls are given.
RaceFiles == {P_f, P_b, P_s, P_n}

\* The buffer of open(archive, mode): the st_blksize of the file, or
\* io.DEFAULT_BUFFER_SIZE.
BufferSizes == {4096, 8192}

\* The chunks "for chunk in read_file_in_chunks(in_file, file_size)" yields,
\* one after the other.
RECURSIVE ChunksOf(_, _, _)
ChunksOf(data, file_size, read_bytes) ==
    LET chunk == FileRead(data, read_bytes,
                          ChunkRequest(read_bytes, file_size, CHUNK_SIZE))
    IN  IF chunk = <<>> THEN <<>>
        ELSE <<chunk>> \o ChunksOf(data, file_size, read_bytes + Len(chunk))

\* The out.write calls of add for filename, in order: the header, the chunks
\* of data if any, the padding.
AddWrites(filename) ==
    LET st == Stat(filename)
        typeflag == TypeFlagOf(st)
        file_size == st.st_size
    IN  <<AddHeader(filename, st, typeflag, <<>>)>>
        \o (IF typeflag \in {TAR_TYPE_REGULAR_FILE, TAR_TYPE_HARDLINK,
                             TAR_TYPE_SYMLINK} /\ file_size # 0
            THEN ChunksOf(st.content, file_size, 0)
            ELSE <<>>)
        \o <<Zeros(RoundUp(file_size) - file_size)>>

\* AddWrites of every path add can write, computed once.
Writes == [p \in DOMAIN Records |-> AddWrites(p)]

\* A buffered file that hands everything to the operating system in one
\* write, when it is closed.
RECURSIVE RawWritesAtClose(_, _, _)
RawWritesAtClose(writes, buf, bufsize) ==
    IF writes = <<>> THEN (IF buf = <<>> THEN <<>> ELSE <<buf>>)
    ELSE RawWritesAtClose(Tail(writes), buf \o Head(writes), bufsize)

\* The writes the buffered file "out" makes on the archive for the out.write
\* calls of add, buf being what it holds already: bytes that fit the buffer
\* are kept; bytes that do not fit have the buffer written out first, and
\* are written at once if longer than the buffer; the close at the end of
\* the with block writes out what is left.
RECURSIVE RawWrites(_, _, _)
RawWrites(writes, buf, bufsize) ==
    IF writes = <<>> THEN (IF buf = <<>> THEN <<>> ELSE <<buf>>)
    ELSE IF Len(Head(writes)) <= bufsize - Len(buf)
    THEN RawWrites(Tail(writes), buf \o Head(writes), bufsize)
    ELSE (IF buf = <<>> THEN <<>> ELSE <<buf>>)
         \o (IF Len(Head(writes)) > bufsize
             THEN <<Head(writes)>> \o RawWrites(Tail(writes), <<>>, bufsize)
             ELSE RawWrites(Tail(writes), Head(writes), bufsize))

\* One write of data on the archive file at offset pos; bytes between the
\* end of the file and pos read as zero.
WriteAt(file, pos, data) ==
    [i \in 1..(IF Len(file) > pos + Len(data) THEN Len(file) ELSE pos + Len(data)) |->
        IF i > pos /\ i <= pos + Len(data) THEN data[i - pos]
        ELSE IF i <= Len(file) THEN file[i] ELSE 0]

IdleProc == [pc |-> "idle", filename |-> NoPath, mode |-> "", pos |-> 0,
             todo |-> <<>>]

\* The archive file is there or not, holding nothing or one entry; no add
\* has been called.
InitRace ==
    /\ \E exists \in BOOLEAN, bufsize \in BufferSizes :
          wr = [on |-> TRUE, exists |-> exists, bufsize |-> bufsize,
                proc |-> [w \in Writers |-> IdleProc], log |-> <<>>]
    /\ archive \in (IF wr.exists THEN {<<>>, Records[P_f]} ELSE {<<>>})
    /\ base = Len(archive)
    /\ entries = <<>> /\ ret = NoCall
    /\ lpc = "idle" /\ lpos = 0 /\ ltrace = <<>> /\ out = <<>>
    /\ xpc = "idle" /\ xpos = 0 /\ xtrace = <<>> /\ outfs = <<>>
    /\ umask = 0
    /\ pb = IdlePb
    /\ gen = IdleGen

\* add(archive, filename) is called in process w and runs up to the choice
\* of the mode: it returns False for a file that is not there, and else
\* looks whether the archive exists.
AddCall(w, filename) ==
    /\ wr.on /\ wr.proc[w].pc = "idle"
    /\ wr' = [wr EXCEPT !.proc[w] =
                IF ~Exists(filename)
                THEN [@ EXCEPT !.pc = "False", !.filename = filename]
                ELSE [@ EXCEPT !.pc = "open", !.filename = filename,
                               !.mode = IF wr.exists THEN "ab" ELSE "wb"]]
    /\ UNCHANGED <<archive, base, entries, ret, lpc, lpos, ltrace, out,
                   xpc, xpos, xtrace, outfs, umask, pb, gen>>

\* open(archive, mode) in process w: 'wb' creates the file or empties it,
\* 'ab' opens it for appending.  The header is filled in then: for a file
\* without type flag the assignment of typeflag raises and the file is
\* closed with nothing written.
AddOpen(w) ==
    /\ wr.on /\ wr.proc[w].pc = "open"
    /\ archive' = IF wr.proc[w].mode = "wb" THEN <<>> ELSE archive
    /\ wr' = [wr EXCEPT
                !.exists = TRUE,
                !.proc[w] =
                    IF Len(TypeFlagOf(Stat(wr.proc[w].filename))) # 1
                    THEN [@ EXCEPT !.pc = "TypeError"]
                    ELSE [@ EXCEPT !.pc = "write",
                                   !.todo = RawWrites(Writes[wr.proc[w].filename],
                                                      <<>>, wr.bufsize)]]
    /\ UNCHANGED <<base, entries, ret, lpc, lpos, ltrace, out,
                   xpc, xpos, xtrace, outfs, umask, pb, gen>>

\* The next write of the buffered file of process w: at the end of the file
\* as it is now when it was opened for appending, else at the position of
\* the process.  After the last one the file is closed and add returns True.
AddWrite(w) ==
    /\ wr.on /\ wr.proc[w].pc = "write"
    /\ LET data == Head(wr.proc[w].todo)
           off == IF wr.proc[w].mode = "ab" THEN Len(archive) ELSE wr.proc[w].pos
       IN  /\ archive' = WriteAt(archive, off, data)
           /\ wr' = [wr EXCEPT
                       !.log = Append(@, [who |-> w, off |-> off, n |-> Len(data)]),
                       !.proc[w] = [@ EXCEPT
                           !.pos = off + Len(data),
                           !.todo = Tail(@),
                           !.pc = IF Len(wr.proc[w].todo) = 1 THEN "True" ELSE "write"]]
    /\ UNCHANGED <<base, entries, ret, lpc, lpos, ltrace, out,
                   xpc, xpos, xtrace, outfs, umask, pb, gen>>

NextRace ==
    \E w \in Writers :
        \/ \E filename \in RaceFiles : AddCall(w, filename)
        \/ AddOpen(w)
        \/ AddWrite(w)

SpecRace == InitRace /\ [][NextRace]_vars

----------------------------------------------------------------------------
(* Claims *)

\* The header that starts at offset off of the archive.
HeaderAt(off) == ReadInto(archive, off).header

\* A scan that has ended, one way or another.
Ended(pc) == pc \in {"Done", "ValueError", "IOError"}

\* C1: round trip.  Once create(archive, file) of a regular file is followed
\* by an extract into a fresh directory, that directory holds the file under
\* its name, with the content of the original and its permission bits.
C1_RoundTrip ==
    (ret.op = "create" /\ IsFile(ret.path) /\ xpc = "Done") =>
        /\ ret.path \in DOMAIN outfs
        /\ outfs[ret.path].kind = "reg"
        /\ outfs[ret.path].content = Stat(ret.path).content
        /\ outfs[ret.path].mode = Stat(ret.path).st_mode % 512

\* C2: record layout.  For every entry add appended, with L the size its
\* header records, exactly ceil(L/512)*512 bytes follow the 512 of the header
\* and those after the first L are zero; a directory, device or FIFO takes
\* exactly 512 bytes; an archive made by create and add alone has a length
\* that is a multiple of 512 and every header at a multiple of 512.
C2_RecordLayout ==
    \A i \in DOMAIN entries :
        LET e == entries[i]
            L == ParseOctal(GetField(HeaderAt(e.off), "size"))
        IN  /\ IsOctal(GetField(HeaderAt(e.off), "size"))
            /\ e.end - (e.off + BLOCK) = ((L + 511) \div 512) * 512
            /\ \A k \in (e.off + BLOCK + L + 1)..e.end : archive[k] = 0
            /\ Stat(e.path).kind \in {"dir", "chr", "blk", "fifo"} =>
                   e.end - e.off = 512
            /\ base = 0 => (Len(archive) % 512 = 0 /\ e.off % 512 = 0)

\* C3: after create and any successful adds, list_content prints one line
\* per appended entry, in the order of appending; entries of the same file
\* give the same line, and each holds the whole file.
C3_ListMatchesEntries ==
    (base = 0 /\ Ended(lpc)) =>
        /\ lpc = "Done"
        /\ Len(out) = Len(entries)
        /\ \A i \in DOMAIN entries :
              /\ out[i].name = entries[i].path
              /\ \A j \in DOMAIN entries :
                    entries[i].path = entries[j].path => out[i] = out[j]
              /\ Stat(entries[i].path).kind = "reg" =>
                    SubSeq(archive, entries[i].off + BLOCK + 1,
                           entries[i].off + BLOCK + out[i].size)
                        = Stat(entries[i].path).content

\* s[lo] + ... + s[hi], added up one byte after the other.
RECURSIVE SumTo(_, _, _)
SumTo(s, lo, hi) == IF hi < lo THEN 0 ELSE SumTo(s, lo, hi - 1) + s[hi]

\* The sum of the bytes of s, taken 64 at a time, from 64 * k + 1 on.
RECURSIVE SumBlocks(_, _)
SumBlocks(s, k) ==
    IF 64 * k >= Len(s) THEN 0
    ELSE SumTo(s, 64 * k + 1, Min(64 * k + 64, Len(s))) + SumBlocks(s, k + 1)

ByteSum(s) == SumBlocks(s, 0)

\* C4: get_header_checksum is the sum of the 512 bytes of a header: 0 for the
\* zeroed header, 256 when only the checksum field holds eight spaces; and
\* the checksum field of every header add wrote reads as the octal text of
\* the sum over that header with eight spaces in the checksum field.
C4_Checksum ==
    /\ get_header_checksum(Zeros(512)) = 0
    /\ get_header_checksum(Zeros(148) \o Rep(32, 8) \o Zeros(356)) = 256
    /\ \A i \in DOMAIN entries :
          LET h == HeaderAt(entries[i].off)
              blank == SubSeq(h, 1, 148) \o Rep(32, 8) \o SubSeq(h, 157, 512)
          IN  /\ get_header_checksum(h) = ByteSum(h)
              /\ IsOctal(GetField(h, "chksum"))
              /\ ParseOctal(GetField(h, "chksum")) = ByteSum(blank)
              /\ Len(GetField(h, "chksum")) = 6

\* An archive holds entries add wrote for a file, a directory and a FIFO.
C4_Witness ==
    /\ \E i \in DOMAIN entries : entries[i].path = P_f
    /\ \E i \in DOMAIN entries : entries[i].path \in {P_d, P_t, P_p}

\* C5: for every type flag and octal mode string permission_bits returns ten
\* characters: the type character of the flag ('-' regular and its NUL
\* alias, 'h', 'l', 'c', 'b', 'd', 'p'; '?' for a flag outside the table),
\* then r, w, x or '-' for each of the nine permission bits, user first.
C5_PermissionBits ==
    pb.pc = "return" =>
        /\ Len(pb.res) = 10
        /\ pb.res[1] = CASE pb.typeflag \in {<<48>>, <<0>>} -> "-"
                         [] pb.typeflag = <<49>> -> "h"
                         [] pb.typeflag = <<50>> -> "l"
                         [] pb.typeflag = <<51>> -> "c"
                         [] pb.typeflag = <<52>> -> "b"
                         [] pb.typeflag = <<53>> -> "d"
                         [] pb.typeflag = <<54>> -> "p"
                         [] OTHER -> "?"
        /\ \A k \in 1..9 :
              pb.res[k + 1] = IF (pb.value \div 2 ^ (9 - k)) % 2 = 1
                              THEN <<"r", "w", "x">>[((k - 1) % 3) + 1]
                              ELSE "-"

\* permission_bits('007', TAR_TYPE_SYMLINK) has returned 'l------rwx'.
C5_Witness ==
    /\ pb.pc = "return"
    /\ pb.str_value = <<48, 48, 55>>
    /\ pb.typeflag = TAR_TYPE_SYMLINK
    /\ pb.res = <<"l", "-", "-", "-", "-", "-", "-", "r", "w", "x">>

\* The entries of a trace with the offset the scan reached after each.
SameSteps(trace) ==
    \A i \in 1..(Len(trace) - 1) :
        trace[i + 1].off =
            Min(Len(archive), trace[i].off + BLOCK + RoundUp(trace[i].size))

\* C6: extract and list_content scan alike.  After every decoded entry, of
\* whatever type, the position moves on by the 512 bytes of the header, the
\* size of the data and the padding to the next block (as far as the file
\* reaches), so that both decode the same headers at the same offsets.
C6_SameScan ==
    /\ SameSteps(ltrace)
    /\ SameSteps(xtrace)
    /\ (lpc = "Done" /\ xpc = "Done") => xtrace = ltrace

Unsupported ==
    {p \in Paths : Exists(p) /\
        Stat(p).kind \notin {"reg", "lnk", "chr", "blk", "dir", "fifo"}}

\* C7: a path whose type is none of regular file, link, device, directory or
\* FIFO gets no type flag, and add appends neither header nor data for it:
\* the archive is as it was.
C7_UnsupportedSkipped ==
    [][\A p \in Unsupported :
          Add(p) => /\ TypeFlagOf(Stat(p)) = <<>>
                    /\ archive' = archive
                    /\ entries' = entries]_vars

\* add has been called on a socket, on an archive that holds an entry.
C7_Witness ==
    ret.op = "add" /\ ret.path \in Unsupported /\ entries # <<>>

\* The name field of the header a scan read at offset off.
NameField(off) == FieldBytes(HeaderAt(off), "name")

\* C8 as stated: a header ends the scan if and only if its 100-byte name
\* field is all zero bytes; any other header is decoded as an entry.
C8_EndIffAllZero ==
    /\ \A i \in DOMAIN ltrace :
          ltrace[i].end <=> NameField(ltrace[i].off) = Zeros(100)
    /\ \A i \in DOMAIN xtrace :
          xtrace[i].end <=> NameField(xtrace[i].off) = Zeros(100)

\* C8, amended: a header ends the scan if and only if the first byte of its
\* name field is zero, whatever follows it in the field; a header whose name
\* starts with another byte is decoded as an entry, and only the end marker
\* ends the scan in Done.
C8_EndIffFirstNul ==
    /\ \A i \in DOMAIN ltrace :
          /\ ltrace[i].end <=> NameField(ltrace[i].off)[1] = 0
          /\ ltrace[i].end => (i = Len(ltrace) /\ lpc = "Done")
    /\ lpc = "Done" => (ltrace # <<>> /\ ltrace[Len(ltrace)].end)
    /\ \A i \in DOMAIN xtrace :
          /\ xtrace[i].end <=> NameField(xtrace[i].off)[1] = 0
          /\ xtrace[i].end => (i = Len(xtrace) /\ xpc = "Done")
    /\ xpc = "Done" => (xtrace # <<>> /\ xtrace[Len(xtrace)].end)

\* Both scans have stopped at a header whose name field is not all zero.
C8_Witness ==
    /\ lpc = "Done" /\ xpc = "Done"
    /\ NameField(ltrace[Len(ltrace)].off) # Zeros(100)
    /\ NameField(xtrace[Len(xtrace)].off) # Zeros(100)

\* chunks[1] \o ... \o chunks[n]
RECURSIVE Concat(_, _)
Concat(chunks, n) == IF n = 0 THEN <<>> ELSE Concat(chunks, n - 1) \o chunks[n]

\* C9: read_file_in_chunks asks each read for at most
\* min(chunk_size, file_size - bytes read so far) bytes and so never reads
\* past file_size bytes; over a source of at least file_size bytes the
\* chunks make up exactly its first file_size bytes; and the chunks are
\* finitely many: none is empty and they are at most file_size.
C9_ChunkedRead ==
    gen.pc # "off" =>
        /\ \A i \in DOMAIN gen.requests :
              /\ gen.requests[i].n >= 0
              /\ gen.requests[i].n <=
                    Min(gen.chunk_size, gen.file_size - gen.requests[i].read_bytes)
        /\ gen.pos - gen.start <= gen.file_size
        /\ gen.read_bytes = gen.pos - gen.start
        /\ Len(Concat(gen.chunks, Len(gen.chunks))) = gen.read_bytes
        /\ \A i \in DOMAIN gen.chunks : gen.chunks[i] # <<>>
        /\ Len(gen.chunks) <= gen.file_size
        /\ Len(gen.requests) <= gen.file_size + 1
        /\ gen.pc = "run" => Len(gen.requests) = Len(gen.chunks)
        /\ (gen.pc = "done" /\ Len(gen.data) - gen.start >= gen.file_size) =>
              Concat(gen.chunks, Len(gen.chunks)) =
                  SubSeq(gen.data, gen.start + 1, gen.start + gen.file_size)

\* A generator has returned after two or more chunks, the last one shorter
\* than chunk_size, with bytes of the source left beyond file_size.
C9_Witness ==
    /\ gen.pc = "done"
    /\ Len(gen.chunks) >= 2
    /\ Len(gen.chunks[Len(gen.chunks)]) < gen.chunk_size
    /\ Len(gen.data) - gen.start > gen.file_size

\* Every header of the archive, found from offset off on by the record
\* layout (512 bytes of header, the data, the padding), has octal text in
\* its numeric fields.
RECURSIVE OctalFieldsFrom(_)
OctalFieldsFrom(off) ==
    IsEndMarker(HeaderAt(off)) \/
        /\ ListFieldsParse(HeaderAt(off))
        /\ OctalFieldsFrom(Min(Len(archive),
               off + BLOCK + RoundUp(ParseOctal(GetField(HeaderAt(off), "size")))))

\* C10: over a finite archive whose headers hold octal text in their numeric
\* fields, list_content and extract come to stop in Done: no scan ends in a
\* ValueError, and each pass of a scan reads at least one byte, so a scan
\* decodes no more headers than the archive has bytes.  (Failures to open an
\* output file are left aside.)
C10_ScanReachesDone ==
    OctalFieldsFrom(0) =>
        /\ lpc # "ValueError"
        /\ xpc # "ValueError"
        /\ Len(ltrace) <= Len(archive) + 1
        /\ Len(xtrace) <= Len(archive) + 1

\* The archive from offset off on is a sequence of complete records: a
\* header of 512 bytes whose checksum field holds the sum over the header,
\* then the bytes its size field counts, zero bytes up to the next multiple
\* of 512, and so on up to the end of the file.
RECURSIVE CompleteFrom(_)
CompleteFrom(off) ==
    \/ off = Len(archive)
    \/ /\ off + BLOCK <= Len(archive)
       /\ IsOctal(GetField(SubSeq(archive, off + 1, off + BLOCK), "size"))
       /\ IsOctal(GetField(SubSeq(archive, off + 1, off + BLOCK), "chksum"))
       /\ LET h == SubSeq(archive, off + 1, off + BLOCK)
              L == ParseOctal(GetField(h, "size"))
          IN  /\ ParseOctal(GetField(h, "chksum")) =
                    ByteSum(SubSeq(h, 1, 148) \o Rep(32, 8) \o SubSeq(h, 157, 512))
              /\ off + BLOCK + RoundUp(L) <= Len(archive)
              /\ \A k \in (off + BLOCK + L + 1)..(off + BLOCK + RoundUp(L)) :
                    archive[k] = 0
              /\ CompleteFrom(off + BLOCK + RoundUp(L))

\* Both calls have returned True, each having opened the archive to append.
BothAppended ==
    \A w \in Writers : wr.proc[w].pc = "True" /\ wr.proc[w].mode = "ab"

\* A write of one call fell between two writes of the other.
Interleaved ==
    \E i, j, k \in DOMAIN wr.log :
        i < j /\ j < k /\ wr.log[i].who = wr.log[k].who /\ wr.log[j].who # wr.log[i].who

\* The bytes the archive holds where the first n writes put those of call w.
RECURSIVE WrittenBy(_, _)
WrittenBy(w, n) ==
    IF n = 0 THEN <<>>
    ELSE WrittenBy(w, n - 1) \o
         (IF wr.log[n].who = w
          THEN SubSeq(archive, wr.log[n].off + 1, wr.log[n].off + wr.log[n].n)
          ELSE <<>>)

\* C11: nothing keeps two add calls on one archive apart.  No write of the
\* buffered file carries more than a buffer or a chunk, so a record longer
\* than that reaches the file in several writes; each write of a file
\* opened to append goes to the end of the file as it is then, whichever
\* call it comes from, so after both calls the archive holds the bytes of
\* both records in the order of the writes; and it is a sequence of
\* complete records exactly when no write of one call fell between two
\* writes of the other.
C11_ConcurrentAdds ==
    wr.on =>
        /\ \A i \in DOMAIN wr.log :
              wr.log[i].n <= (IF wr.bufsize > CHUNK_SIZE THEN wr.bufsize ELSE CHUNK_SIZE)
        /\ BothAppended =>
              /\ \A i \in DOMAIN wr.log :
                    wr.log[i].off =
                        IF i = 1 THEN base ELSE wr.log[i - 1].off + wr.log[i - 1].n
              /\ Len(archive) = wr.log[Len(wr.log)].off + wr.log[Len(wr.log)].n
              /\ \A w \in Writers :
                    WrittenBy(w, Len(wr.log)) = Records[wr.proc[w].filename]
              /\ CompleteFrom(0) <=> ~Interleaved

\* Two add calls on an existing archive have returned True, the header of
\* one record is followed by bytes of the other call, and the archive is no
\* sequence of complete records.
C11_Witness ==
    /\ wr.on
    /\ BothAppended
    /\ Interleaved
    /\ ~CompleteFrom(0)

====
